---- MODULE Spec2Model ----
(***************************************************************************)
(* A model of the capability-mediation layer of secure-app-framework:      *)
(* the path sanitizer and the mediated operations of crates/core, the URL  *)
(* allowlist of crates/policy, the hash-chained audit log of crates/audit  *)
(* and the broker's hosts (crates/broker).                                 *)
(*                                                                         *)
(* A Rust string is a sequence of characters, each character a one-letter  *)
(* TLA+ string; Utf8 gives the bytes of a character, so that byte lengths, *)
(* byte-wise ordering and the bytes written to the audit file are those of *)
(* the program.                                                            *)
(***************************************************************************)
EXTENDS Naturals, Sequences, FiniteSets, TLC

VARIABLES
    fn,        \* pure-function runs: the function applied
    arg,       \* pure-function runs: its input
    ret,       \* pure-function runs: its result, Pending before the call
    pc,        \* per thread: where its current call stands
    cur,       \* per thread: the current call with its locals
    state,     \* AuditLog.state: the ChainHash accumulator
    buf,       \* AuditLog.file: the bytes BufWriter holds
    file,      \* the audit file on disk, a sequence of characters
    lock,      \* StdLogHost.inner: the thread holding the Mutex, 0 if free
    events,    \* every LogHost::event call so far, in order
    appended,  \* every completed AuditLog::append, in order of completion
    succeeded, \* the mediated calls that returned Ok, in order of return
    fsCalls,   \* number of calls made to the FsHost provider
    netCalls,  \* number of calls made to the NetHost provider
    ncalls,    \* number of calls started (bounds the run)
    sessions   \* number of AuditLog::new calls on the file so far

vars == <<fn, arg, ret, pc, cur, state, buf, file, lock, events, appended,
          succeeded, fsCalls, netCalls, ncalls, sessions>>

(***************************************************************************)
(* Bounds of the model.                                                    *)
(***************************************************************************)
MaxPathLen == 5
MaxEntries == 3
MaxDomains == 2
MaxUrlRest == 3
MaxCalls == 2
MaxSessions == 2
NThreads == 2
HashBits == 8
MaxFillLen == 3

(***************************************************************************)
(* Characters and strings.                                                 *)
(***************************************************************************)
\* characters written by name
DQuote == "U+0022"
Backslash == "U+005C"
Backtick == "U+0060"

Ascii == <<" ", "!", DQuote, "#", "$", "%", "&", "'", "(", ")", "*", "+", ",",
           "-", ".", "/", "0", "1", "2", "3", "4", "5", "6", "7", "8", "9",
           ":", ";", "<", "=", ">", "?", "@", "A", "B", "C", "D", "E", "F",
           "G", "H", "I", "J", "K", "L", "M", "N", "O", "P", "Q", "R", "S",
           "T", "U", "V", "W", "X", "Y", "Z", "[", Backslash, "]", "^", "_", Backtick,
           "a", "b", "c", "d", "e", "f", "g", "h", "i", "j", "k", "l", "m",
           "n", "o", "p", "q", "r", "s", "t", "u", "v", "w", "x", "y", "z",
           "{", "|", "}", "~">>

\* the line break and a character whose UTF-8 encoding takes two bytes
NL == "\n"
EAcute == "U+00E9"

\* the code of each printable ASCII character
AsciiCode ==
    [c \in {Ascii[i] : i \in 1..Len(Ascii)} |->
        31 + (CHOOSE i \in 1..Len(Ascii) : Ascii[i] = c)]

\* the UTF-8 bytes of one character
Utf8(c) ==
    IF c = NL THEN <<10>>
    ELSE IF c = EAcute THEN <<195, 169>>
    ELSE <<AsciiCode[c]>>

RECURSIVE Bytes(_)
\* str::as_bytes (the string is halved to keep the evaluation shallow)
Bytes(s) ==
    IF s = <<>> THEN <<>>
    ELSE IF Len(s) = 1 THEN Utf8(s[1])
    ELSE LET k == Len(s) \div 2
         IN Bytes(SubSeq(s, 1, k)) \o Bytes(SubSeq(s, k + 1, Len(s)))

\* str::len: the length in bytes
ByteLen(s) == Len(Bytes(s))

\* the sequences over S of length at most n
SeqsUpTo(S, n) == UNION {[1..k -> S] : k \in 0..n}

Digit(d) == Ascii[17 + d]

RECURSIVE Dec(_)
\* Display for an unsigned integer: its decimal digits
Dec(n) == IF n < 10 THEN <<Digit(n)>> ELSE Dec(n \div 10) \o <<Digit(n % 10)>>

\* str::starts_with
StartsWith(s, p) == Len(p) <= Len(s) /\ SubSeq(s, 1, Len(p)) = p

RECURSIVE BytesLess(_, _)
BytesLess(a, b) ==
    IF b = <<>> THEN FALSE
    ELSE IF a = <<>> THEN TRUE
    ELSE IF Head(a) # Head(b) THEN Head(a) < Head(b)
    ELSE BytesLess(Tail(a), Tail(b))

\* Ord for String: byte-wise lexicographic
StrLess(a, b) == BytesLess(Bytes(a), Bytes(b))

(***************************************************************************)
(* Option and Result values.                                               *)
(***************************************************************************)
None == [some |-> FALSE, val |-> <<>>]
Some(v) == [some |-> TRUE, val |-> v]
Pending == [kind |-> "pending", val |-> <<>>]
Ok(v) == [kind |-> "Ok", val |-> v]
\* a filesystem failure that has lost the provider's text
ErrFsNoDetail(detail) == [kind |-> "Fs", val |-> <<>>]

ErrInvalidPath == [kind |-> "InvalidPath", val |-> <<>>]
ErrFs(detail) == [kind |-> "Fs", val |-> detail]
ErrNet(detail) == [kind |-> "Net", val |-> detail]

(***************************************************************************)
(* Path sanitizer (crates/core).  std::path on a Unix host: a path is      *)
(* absolute when it starts with the separator; components() drops empty    *)
(* segments and every "." segment but a leading one of a relative path.    *)
(***************************************************************************)
RECURSIVE SplitSlash(_)
\* the segments between separators, empty ones included
SplitSlash(p) ==
    IF \A i \in 1..Len(p) : p[i] # "/" THEN <<p>>
    ELSE LET k == CHOOSE i \in 1..Len(p) :
                      p[i] = "/" /\ \A j \in 1..(i - 1) : p[j] # "/"
         IN <<SubSeq(p, 1, k - 1)>> \o SplitSlash(SubSeq(p, k + 1, Len(p)))

\* Path::is_absolute
is_absolute(p) == p # <<>> /\ p[1] = "/"

Dot == <<".">>
DotDot == <<".", ".">>

\* one segment as a std::path::Component, or nothing for a skipped one
ComponentOf(p, segs, i) ==
    IF segs[i] = <<>> THEN <<>>
    ELSE IF segs[i] = Dot
         THEN IF i = 1 /\ ~is_absolute(p)
              THEN <<[kind |-> "CurDir", seg |-> segs[i]]>>
              ELSE <<>>
    ELSE IF segs[i] = DotDot THEN <<[kind |-> "ParentDir", seg |-> segs[i]]>>
    ELSE <<[kind |-> "Normal", seg |-> segs[i]]>>

RECURSIVE ComponentsFrom(_, _, _)
ComponentsFrom(p, segs, i) ==
    IF i > Len(segs) THEN <<>>
    ELSE ComponentOf(p, segs, i) \o ComponentsFrom(p, segs, i + 1)

\* Path::components
Components(p) ==
    (IF is_absolute(p) THEN <<[kind |-> "RootDir", seg |-> <<"/">>]>> ELSE <<>>)
    \o ComponentsFrom(p, SplitSlash(p), 1)

RECURSIVE JoinSlash(_)
\* [String]::join("/")
JoinSlash(parts) ==
    IF parts = <<>> THEN <<>>
    ELSE IF Len(parts) = 1 THEN parts[1]
    ELSE parts[1] \o <<"/">> \o JoinSlash(Tail(parts))

\* a sanitizer that forgets to reject parent-directory components
SanitizeLoopKeepsParent(comps, parts) ==
    Some(JoinSlash([i \in 1..Len(comps) |-> comps[i].seg]))

RECURSIVE SanitizeLoop(_, _)
\* the loop over the components: None on the first rejected one
SanitizeLoop(comps, parts) ==
    IF comps = <<>> THEN Some(JoinSlash(parts))
    ELSE LET c == Head(comps) IN
         IF c.kind = "Normal"
         THEN IF c.seg = <<>> THEN None
              ELSE SanitizeLoop(Tail(comps), Append(parts, c.seg))
         ELSE IF c.kind = "CurDir" THEN SanitizeLoop(Tail(comps), parts)
         ELSE None

sanitize_rel_path(path) ==
    IF is_absolute(path) THEN None
    ELSE SanitizeLoop(Components(path), <<>>)

(***************************************************************************)
(* Policy engine (crates/policy).                                          *)
(***************************************************************************)
Https == <<"h", "t", "t", "p", "s", ":", "/", "/">>
Http == <<"h", "t", "t", "p", ":", "/", "/">>
HttpsUpper == <<"H", "T", "T", "P", "S", ":", "/", "/">>

\* url.starts_with("https://{d}") : the allowlist test without the separator
DomainMatchesPrefix(url, d) == StartsWith(url, Https \o d)

\* the test of one allowed domain
DomainMatches(url, d) ==
    StartsWith(url, Https \o d \o <<"/">>) \/ url = Https \o d

RECURSIVE is_url_allowed(_, _)
\* Policy::is_url_allowed: the loop over allowed_domains
is_url_allowed(domains, url) ==
    IF domains = <<>> THEN FALSE
    ELSE IF DomainMatches(url, Head(domains)) THEN TRUE
    ELSE is_url_allowed(Tail(domains), url)

(***************************************************************************)
(* Sorting and deduplication of a directory listing (crates/core).         *)
(***************************************************************************)
RECURSIVE Insert(_, _)
Insert(x, sorted) ==
    IF sorted = <<>> THEN <<x>>
    ELSE IF StrLess(x, Head(sorted)) THEN <<x>> \o sorted
    ELSE <<Head(sorted)>> \o Insert(x, Tail(sorted))

RECURSIVE SortStrings(_)
\* Vec<String>::sort: the ascending (stable) arrangement
SortStrings(v) ==
    IF v = <<>> THEN <<>> ELSE Insert(v[Len(v)], SortStrings(SubSeq(v, 1, Len(v) - 1)))

RECURSIVE Dedup(_)
\* Vec::dedup: consecutive repeated elements are removed
Dedup(v) ==
    IF Len(v) <= 1 THEN v
    ELSE IF v[1] = v[2] THEN Dedup(Tail(v))
    ELSE <<v[1]>> \o Dedup(Tail(v))

\* a listing that is deduplicated without being sorted first
DedupOnly(entries) == Dedup(entries)

\* list_dir's treatment of the provider's entries: sort, then dedup
SortDedup(entries) == Dedup(SortStrings(entries))

(***************************************************************************)
(* Inputs of the pure-function runs.                                       *)
(***************************************************************************)
PathAlphabet == {"a", "b", ".", "/"}
Paths == SeqsUpTo(PathAlphabet, MaxPathLen)

ExampleOrg == <<"e", "x", "a", "m", "p", "l", "e", ".", "o", "r", "g">>
HttpbinOrg == <<"h", "t", "t", "p", "b", "i", "n", ".", "o", "r", "g">>
UrlData == Https \o ExampleOrg \o <<"/", "d", "a", "t", "a", ".", "j", "s", "o", "n">>
UrlBare == Https \o ExampleOrg
UrlEvilSub == Https \o <<"e", "v", "i", "l", ".">> \o ExampleOrg \o <<"/", "x">>
UrlEvilSuffix == Https \o ExampleOrg \o <<".", "e", "v", "i", "l", "/">>
UrlHttp == Http \o ExampleOrg \o <<"/", "d", "a", "t", "a", ".", "j", "s", "o", "n">>
UrlUpper == Https \o <<"E", "X", "A", "M", "P", "L", "E", ".", "O", "R", "G">> \o <<"/", "x">>
UrlHttpbin == Https \o HttpbinOrg \o <<"/", "j", "s", "o", "n">>

Domains == {ExampleOrg, <<"e">>, <<"E">>, <<"e", ".">>, <<".", "e">>, <<"e", "/">>, <<>>}
Policies == SeqsUpTo(Domains, MaxDomains)
Urls ==
    {scheme \o rest : scheme \in {Https, Http, HttpsUpper, <<>>},
                      rest \in SeqsUpTo({"e", "E", ".", "/"}, MaxUrlRest)}
    \cup {UrlData, UrlBare, UrlEvilSub, UrlEvilSuffix, UrlHttp, UrlUpper, UrlHttpbin}

NameA == <<"a">>
NameB == <<"b">>
NameAB == <<"a", "b">>
NameUpperB == <<"B">>
Names == {NameA, NameB, NameAB, NameUpperB}
Listings == SeqsUpTo(Names, MaxEntries)

(***************************************************************************)
(* The threads of the broker and the state of an idle system.              *)
(***************************************************************************)
Threads == 1..NThreads

\* a call: its operation and arguments (path holds the path or the URL),
\* its locals (rel, the provider's answer got or its failure err, the event
\* message msg), its result, and what the counters read when it started.
\* touch is the path below the workspace root that StdFsHost accessed,
\* fsSeq the rank of its provider call among all provider calls, fetched
\* whether the network host went past its policy test, acc0 the chain state
\* when the call took the log, appendFailed whether its append returned Err.
NoCall == [id |-> 0, op |-> "none", path |-> <<>>, content |-> <<>>,
           rel |-> <<>>, got |-> <<>>, err |-> <<>>, msg |-> <<>>,
           result |-> Pending, touch |-> None, fsSeq |-> 0, fetched |-> FALSE,
           acc0 |-> 0, appendFailed |-> FALSE,
           fs0 |-> 0, net0 |-> 0, ev0 |-> 0]

NoSystem ==
    /\ pc = [t \in Threads |-> "idle"]
    /\ cur = [t \in Threads |-> NoCall]
    /\ state = 0
    /\ buf = <<>>
    /\ file = <<>>
    /\ lock = 0
    /\ events = <<>>
    /\ appended = <<>>
    /\ succeeded = <<>>
    /\ fsCalls = 0
    /\ netCalls = 0
    /\ ncalls = 0
    /\ sessions = 0

sysvars == <<pc, cur, state, buf, file, lock, events, appended, succeeded,
             fsCalls, netCalls, ncalls, sessions>>

(***************************************************************************)
(* Pure-function runs: Init draws the input, one action applies the        *)
(* function.  ret is <<>> before the call and <<result>> after it.         *)
(***************************************************************************)
InitPure ==
    /\ \/ fn = "sanitize_rel_path" /\ arg \in Paths
       \/ fn = "is_url_allowed"
          /\ arg \in {[domains |-> d, url |-> u] : d \in Policies, u \in Urls}
       \/ fn = "sort_dedup" /\ arg \in Listings
    /\ ret = <<>>
    /\ NoSystem

ApplySanitize ==
    /\ fn = "sanitize_rel_path" /\ ret = <<>>
    /\ ret' = <<sanitize_rel_path(arg)>>
    /\ UNCHANGED <<fn, arg, sysvars>>

ApplyIsUrlAllowed ==
    /\ fn = "is_url_allowed" /\ ret = <<>>
    /\ ret' = <<is_url_allowed(arg.domains, arg.url)>>
    /\ UNCHANGED <<fn, arg, sysvars>>

ApplySortDedup ==
    /\ fn = "sort_dedup" /\ ret = <<>>
    /\ ret' = <<SortDedup(arg)>>
    /\ UNCHANGED <<fn, arg, sysvars>>

NextPure == ApplySanitize \/ ApplyIsUrlAllowed \/ ApplySortDedup

SpecPure == InitPure /\ [][NextPure]_vars

(***************************************************************************)
(* Claims about the pure functions.                                        *)
(***************************************************************************)
Sanitized == fn = "sanitize_rel_path" /\ ret # <<>>

\* the segments of a path as the specification counts them: the pieces
\* between separators, the empty string having none
Segments(p) == IF p = <<>> THEN <<>> ELSE SplitSlash(p)

NotDot(seg) == seg # Dot

\* C2: an accepted input yields exactly its segments without the "."
\* segments, in order, joined by "/"; so the result has no empty segment, no
\* leading separator and no "." or ".." segment.
C2_SanitizeDropsOnlyCurDir ==
    (Sanitized /\ ret[1].some) =>
        /\ ret[1].val = JoinSlash(SelectSeq(Segments(arg), NotDot))
        /\ \A i \in 1..Len(Segments(ret[1].val)) :
               Segments(ret[1].val)[i] \notin {<<>>, Dot, DotDot}
        /\ ~is_absolute(ret[1].val)

\* C3: a non-empty input with an empty segment (a doubled or a trailing
\* separator) is rejected.
C3_SanitizeRejectsEmptySegment ==
    (Sanitized /\ arg # <<>> /\ \E i \in 1..Len(SplitSlash(arg)) : SplitSlash(arg)[i] = <<>>)
        => ~ret[1].some

PolicyAsked == fn = "is_url_allowed" /\ ret # <<>>

\* C4: a URL is allowed exactly when, for some configured domain d, it is
\* "https://" d or begins with "https://" d "/"; the examples of the claim
\* come out as stated and an empty allowlist denies everything.
C4_UrlAllowedIffExactDomain ==
    PolicyAsked =>
        LET ds == arg.domains
            u == arg.url
            Hit(d) == LET n == Len(Https) + Len(d) IN
                      /\ Len(u) >= n
                      /\ \A i \in 1..n : u[i] = (Https \o d)[i]
                      /\ (Len(u) = n \/ u[n + 1] = "/")
        IN /\ ret[1] = (\E k \in 1..Len(ds) : Hit(ds[k]))
           /\ ds = <<>> => ret[1] = FALSE
           /\ ds = <<ExampleOrg>> =>
                  /\ u \in {UrlData, UrlBare} => ret[1] = TRUE
                  /\ u \in {UrlEvilSub, UrlEvilSuffix, UrlHttp, UrlUpper} => ret[1] = FALSE

\* a longer host that has an allowed domain as a prefix was asked and denied
C4_Witness ==
    /\ PolicyAsked
    /\ arg.domains = <<<<"e">>, ExampleOrg>>
    /\ arg.url = UrlEvilSuffix
    /\ ret = <<FALSE>>

Listed == fn = "sort_dedup" /\ ret # <<>>

Range(v) == {v[i] : i \in 1..Len(v)}

\* C5: the listing returned is strictly ascending (sorted, no name twice) and
\* holds exactly the distinct names the provider returned.
C5_ListingSortedDistinctSameNames ==
    Listed =>
        /\ \A i \in 1..(Len(ret[1]) - 1) : StrLess(ret[1][i], ret[1][i + 1])
        /\ Range(ret[1]) = Range(arg)

\* an unsorted listing with a repeated name was put in order
C5_Witness ==
    /\ Listed
    /\ arg = <<NameB, NameA, NameB>>
    /\ ret = <<(<<NameA, NameB>>)>>

(***************************************************************************)
(* Audit log (crates/audit).  The accumulator is a u64 folded by std's     *)
(* DefaultHasher over the previous value, the message bytes and the 0xff   *)
(* terminator that str::hash writes.  The hasher is library code: it is    *)
(* modelled as a deterministic mixing of that byte stream, HashBits wide.  *)
(***************************************************************************)
HashMod == 2 ^ HashBits

\* DefaultHasher::new(): the fixed initial state of the hasher
HasherNew == 7

\* one write into the hasher
Mix(h, x) == (h * 33 + x + 1) % HashMod

RECURSIVE MixAll(_, _)
\* the hasher after the writes xs, one after another (the sequence is
\* halved to keep the evaluation shallow)
MixAll(h, xs) ==
    IF xs = <<>> THEN h
    ELSE IF Len(xs) = 1 THEN Mix(h, xs[1])
    ELSE LET k == Len(xs) \div 2
             mid == MixAll(h, SubSeq(xs, 1, k))
         IN \* the test makes TLC compute mid before it goes on
            IF mid < HashMod THEN MixAll(mid, SubSeq(xs, k + 1, Len(xs))) ELSE mid

\* ChainHash::new
ChainHashNew == 0

\* ChainHash::update: hash the previous value, then the message
ChainUpdate(prev, msg) == MixAll(Mix(HasherNew, prev), Bytes(msg) \o <<255>>)

\* an open that truncates the file
OpenTruncate(old) == <<>>

\* OpenOptions::new().create(true).append(true).open(path): the content of
\* the file after the open, from its content before (<<>> when it is new)
OpenAppend(old) == old

\* format!("{}|{}\n", self.state.0, message)
Line(acc, msg) == Dec(acc) \o <<"|">> \o msg \o <<NL>>

(***************************************************************************)
(* Event messages of the mediated operations (crates/core) and the         *)
(* broker's network host.                                                  *)
(***************************************************************************)
MsgListDir ==
    <<"f", "s", ".", "l", "i", "s", "t", "_", "d", "i", "r", " ", "p", "a",
      "t", "h", "=">>
MsgReadText ==
    <<"f", "s", ".", "r", "e", "a", "d", "_", "t", "e", "x", "t", " ", "p",
      "a", "t", "h", "=">>
MsgWriteText ==
    <<"f", "s", ".", "w", "r", "i", "t", "e", "_", "t", "e", "x", "t", " ",
      "p", "a", "t", "h", "=">>
MsgBytes ==
    <<" ", "b", "y", "t", "e", "s", "=">>
MsgGetText ==
    <<"n", "e", "t", ".", "g", "e", "t", "_", "t", "e", "x", "t", " ", "u",
      "r", "l", "=">>
MsgBrokerStart ==
    <<"b", "r", "o", "k", "e", "r", ".", "s", "t", "a", "r", "t">>
BlockedByPolicy ==
    <<"b", "l", "o", "c", "k", "e", "d", " ", "b", "y", " ", "p", "o", "l",
      "i", "c", "y">>
NetworkNotImplemented ==
    <<"n", "e", "t", "w", "o", "r", "k", " ", "n", "o", "t", " ", "i", "m",
      "p", "l", "e", "m", "e", "n", "t", "e", "d">>
NoSuchFile ==
    <<"n", "o", " ", "s", "u", "c", "h", " ", "f", "i", "l", "e">>
PermissionDenied ==
    <<"p", "e", "r", "m", "i", "s", "s", "i", "o", "n", " ", "d", "e", "n",
      "i", "e", "d">>
InvalidPathText ==
    <<"i", "n", "v", "a", "l", "i", "d", " ", "p", "a", "t", "h">>

BodyExample ==
    <<"{", DQuote, "e", "x", "a", "m", "p", "l", "e", DQuote, ":", "t", "r",
      "u", "e", "}">>

\* the number of characters, where the number of bytes is meant
CharCount(s) == Len(s)

\* String::len as the event messages use it
TextLen(s) == ByteLen(s)

FsOps == {"list_dir", "read_text", "write_text"}
MediatedOps == FsOps \cup {"fetch_json"}

\* the message of a call's audit event, from its locals
EventMessage(c) ==
    IF c.op = "list_dir" THEN MsgListDir \o c.rel
    ELSE IF c.op = "read_text"
         THEN MsgReadText \o c.rel \o MsgBytes \o Dec(TextLen(c.got))
    ELSE IF c.op = "write_text"
         THEN MsgWriteText \o c.rel \o MsgBytes \o Dec(TextLen(c.content))
    ELSE IF c.op = "fetch_json"
         THEN MsgGetText \o c.path \o MsgBytes \o Dec(TextLen(c.got))
    ELSE c.msg

\* the value a successful call returns
ResultValue(c) ==
    IF c.op = "list_dir" THEN SortDedup(c.got)
    ELSE IF c.op \in {"read_text", "fetch_json"} THEN c.got
    ELSE <<>>

\* main: Policy::new().with_allowed_domains(["example.org", "httpbin.org"])
BrokerPolicy == <<ExampleOrg, HttpbinOrg>>

\* Result<String, String> of a provider
ProviderOk(v) == [ok |-> TRUE, val |-> v]
ProviderErr(e) == [ok |-> FALSE, val |-> e]

\* a network host that answers without asking the policy
StubGetTextUngated(url) ==
    IF url = UrlData THEN ProviderOk(BodyExample)
    ELSE ProviderErr(NetworkNotImplemented)

\* StubNetHost::get_text
StubGetTextResult(url) ==
    IF ~is_url_allowed(BrokerPolicy, url) THEN ProviderErr(BlockedByPolicy)
    ELSE IF url = UrlData THEN ProviderOk(BodyExample)
    ELSE ProviderErr(NetworkNotImplemented)

\* whether StubNetHost::get_text gets past its policy test, to the place
\* where the request is (to be) made
StubFetches(url) == StubGetTextResult(url) # ProviderErr(BlockedByPolicy)

\* ctx.net.get_text(url).map_err(CoreError::Net)
StubGetText(url) ==
    LET r == StubGetTextResult(url) IN IF r.ok THEN Ok(r.val) ELSE ErrNet(r.val)

(***************************************************************************)
(* Inputs of the calls and answers of the filesystem provider.             *)
(***************************************************************************)
CallPaths ==
    {<<"a">>, <<".", "/", "a">>, <<".", ".", "/", "a">>, <<"/", "a">>,
     <<"a", "/", "/", "b">>, <<"a", "/", ".", ".", "/", "b">>}
Contents == {<<>>, <<EAcute>>}
CallUrls == {UrlData, UrlHttpbin, UrlEvilSuffix}
LogMessages == {<<"m">>, <<"m", NL, "n">>}
ProviderListings == {<<>>, <<NameB, NameA, NameB>>}

ProviderAnswers(op) ==
    IF op = "list_dir" THEN ProviderListings
    ELSE IF op = "read_text" THEN Contents
    ELSE {<<>>}

\* the texts of the I/O errors the provider reports (e.to_string())
ProviderErrors == {NoSuchFile, PermissionDenied}

\* an adapter path check that lets every path through
AcceptAnyPath(path) == Some(path)

\* the broker's own sanitize_rel_path, which StdFsHost applies to the path
\* it is given before it joins it to the workspace root
broker_sanitize_rel_path(path) ==
    IF is_absolute(path) THEN None
    ELSE SanitizeLoop(Components(path), <<>>)

(***************************************************************************)
(* The broker: a session starts with AuditLog::new and main's              *)
(* log.event("broker.start"); then calls arrive.                           *)
(***************************************************************************)
MainThread == 1

BootCall == [NoCall EXCEPT !.op = "broker_start", !.msg = MsgBrokerStart]

Booted == ~(cur[MainThread].op = "broker_start" /\ pc[MainThread] # "done")

Init ==
    /\ fn = "none" /\ arg = <<>> /\ ret = <<>>
    /\ pc = [t \in Threads |-> IF t = MainThread THEN "log" ELSE "idle"]
    /\ cur = [t \in Threads |-> IF t = MainThread THEN BootCall ELSE NoCall]
    /\ state = ChainHashNew
    /\ buf = <<>>
    /\ file = <<>>
    /\ lock = 0
    /\ events = <<>>
    /\ appended = <<>>
    /\ succeeded = <<>>
    /\ fsCalls = 0
    /\ netCalls = 0
    /\ ncalls = 0
    /\ sessions = 1

purevars == <<fn, arg, ret>>
logvars == <<state, buf, file, lock, events, appended, succeeded>>

CanStart(t) == pc[t] \in {"idle", "done"} /\ Booted /\ ncalls < MaxCalls

NewCall(o, p, c) ==
    [NoCall EXCEPT !.id = ncalls + 1, !.op = o, !.path = p, !.content = c,
                   !.fs0 = fsCalls, !.net0 = netCalls, !.ev0 = Len(events)]

\* list_dir, read_text, write_text up to the provider call: sanitize, and
\* return InvalidPath at once when the path is refused
CallFs(t, ops, paths, contents) ==
    /\ CanStart(t)
    /\ \E o \in ops, p \in paths :
       \E c \in (IF o = "write_text" THEN contents ELSE {<<>>}) :
         LET r == sanitize_rel_path(p) IN
            IF r.some
            THEN /\ cur' = [cur EXCEPT ![t] = [NewCall(o, p, c) EXCEPT !.rel = r.val]]
                 /\ pc' = [pc EXCEPT ![t] = "fs"]
            ELSE /\ cur' = [cur EXCEPT ![t] =
                               [NewCall(o, p, c) EXCEPT !.result = ErrInvalidPath]]
                 /\ pc' = [pc EXCEPT ![t] = "done"]
    /\ ncalls' = ncalls + 1
    /\ UNCHANGED <<purevars, logvars, fsCalls, netCalls, sessions>>

\* StdFsHost answers (it checks the path it is given, joins it to the root
\* and does the I/O there): the call goes on to its audit event
FsProviderOk(t) ==
    /\ pc[t] = "fs"
    /\ broker_sanitize_rel_path(cur[t].rel).some
    /\ \E g \in ProviderAnswers(cur[t].op) :
         cur' = [cur EXCEPT ![t] =
                    [cur[t] EXCEPT !.got = g,
                                   !.touch = broker_sanitize_rel_path(cur[t].rel),
                                   !.fsSeq = fsCalls + 1,
                                   !.msg = EventMessage([cur[t] EXCEPT !.got = g])]]
    /\ pc' = [pc EXCEPT ![t] = "log"]
    /\ fsCalls' = fsCalls + 1
    /\ UNCHANGED <<purevars, logvars, netCalls, ncalls, sessions>>

\* the provider fails: map_err(CoreError::Fs)? returns at once
FsProviderErr(t) ==
    /\ pc[t] = "fs"
    /\ broker_sanitize_rel_path(cur[t].rel).some
    /\ \E e \in ProviderErrors :
         cur' = [cur EXCEPT ![t] =
                    [cur[t] EXCEPT !.err = e,
                                   !.touch = broker_sanitize_rel_path(cur[t].rel),
                                   !.fsSeq = fsCalls + 1,
                                   !.result = ErrFs(e)]]
    /\ pc' = [pc EXCEPT ![t] = "done"]
    /\ fsCalls' = fsCalls + 1
    /\ UNCHANGED <<purevars, logvars, netCalls, ncalls, sessions>>

\* fetch_json up to the provider call: nothing is validated here
CallFetch(t, urls) ==
    /\ CanStart(t)
    /\ \E u \in urls :
         cur' = [cur EXCEPT ![t] = NewCall("fetch_json", u, <<>>)]
    /\ pc' = [pc EXCEPT ![t] = "net"]
    /\ ncalls' = ncalls + 1
    /\ UNCHANGED <<purevars, logvars, fsCalls, netCalls, sessions>>

\* ctx.net.get_text(url) on the broker's StubNetHost
NetProvider(t) ==
    /\ pc[t] = "net"
    /\ LET r == StubGetText(cur[t].path) IN
       IF r.kind = "Ok"
       THEN /\ cur' = [cur EXCEPT ![t] =
                          [cur[t] EXCEPT !.got = r.val,
                                         !.fetched = StubFetches(cur[t].path),
                                         !.msg = EventMessage([cur[t] EXCEPT !.got = r.val])]]
            /\ pc' = [pc EXCEPT ![t] = "log"]
       ELSE /\ cur' = [cur EXCEPT ![t] =
                          [cur[t] EXCEPT !.err = StubGetTextResult(cur[t].path).val,
                                         !.fetched = StubFetches(cur[t].path),
                                         !.result = r]]
            /\ pc' = [pc EXCEPT ![t] = "done"]
    /\ netCalls' = netCalls + 1
    /\ UNCHANGED <<purevars, logvars, fsCalls, ncalls, sessions>>

\* the component's log.event(message): the message goes to the log as it is
CallLogEvent(t, messages) ==
    /\ CanStart(t)
    /\ \E m \in messages :
         cur' = [cur EXCEPT ![t] = [NewCall("log_event", <<>>, <<>>) EXCEPT !.msg = m]]
    /\ pc' = [pc EXCEPT ![t] = "log"]
    /\ ncalls' = ncalls + 1
    /\ UNCHANGED <<purevars, logvars, fsCalls, netCalls, sessions>>

\* a lock that anyone may take at any time
LockAlwaysFree(t) == TRUE

\* Mutex::lock succeeds when no thread holds the guard
LockFree(t) == lock = 0

\* StdLogHost::event is entered and takes the Mutex
LogLock(t) ==
    /\ pc[t] = "log"
    /\ LockFree(t)
    /\ lock' = t
    /\ events' = Append(events, [id |-> cur[t].id, op |-> cur[t].op, msg |-> cur[t].msg])
    /\ cur' = [cur EXCEPT ![t].acc0 = state]
    /\ pc' = [pc EXCEPT ![t] = "locked"]
    /\ UNCHANGED <<purevars, state, buf, file, appended, succeeded,
                   fsCalls, netCalls, ncalls, sessions>>

\* AuditLog::append: self.state.update(message)
LogUpdate(t) ==
    /\ pc[t] = "locked"
    /\ state' = ChainUpdate(state, cur[t].msg)
    /\ pc' = [pc EXCEPT ![t] = "updated"]
    /\ UNCHANGED <<purevars, cur, buf, file, lock, events, appended, succeeded,
                   fsCalls, netCalls, ncalls, sessions>>

\* AuditLog::append: format the line and write_all it into the BufWriter
LogWrite(t) ==
    /\ pc[t] = "updated"
    /\ buf' = buf \o Line(state, cur[t].msg)
    /\ pc' = [pc EXCEPT ![t] = "written"]
    /\ UNCHANGED <<purevars, cur, state, file, lock, events, appended,
                   succeeded, fsCalls, netCalls, ncalls, sessions>>

\* AuditLog::append: flush the BufWriter into the file; append returns
LogFlush(t) ==
    /\ pc[t] = "written"
    /\ file' = file \o buf
    /\ buf' = <<>>
    /\ appended' = Append(appended, [id |-> cur[t].id, msg |-> cur[t].msg])
    /\ pc' = [pc EXCEPT ![t] = "flushed"]
    /\ UNCHANGED <<purevars, cur, state, lock, events, succeeded, fsCalls,
                   netCalls, ncalls, sessions>>

\* the guard is dropped, event returns and the call returns Ok
LogUnlockReturn(t) ==
    /\ pc[t] = "flushed"
    /\ lock' = 0
    /\ cur' = [cur EXCEPT ![t].result = Ok(ResultValue(cur[t]))]
    /\ succeeded' = IF cur[t].op \in MediatedOps
                    THEN Append(succeeded, cur[t].id) ELSE succeeded
    /\ pc' = [pc EXCEPT ![t] = "done"]
    /\ UNCHANGED <<purevars, state, buf, file, events, appended, fsCalls,
                   netCalls, ncalls, sessions>>

\* the broker is started again on the same workspace: AuditLog::new opens
\* the existing file for appending and main logs "broker.start"
NewSession ==
    /\ \A t \in Threads : pc[t] \in {"idle", "done"}
    /\ Booted
    /\ sessions < MaxSessions
    /\ sessions' = sessions + 1
    /\ state' = ChainHashNew
    /\ buf' = <<>>
    /\ lock' = 0
    /\ file' = OpenAppend(file)
    /\ pc' = [t \in Threads |-> IF t = MainThread THEN "log" ELSE "idle"]
    /\ cur' = [t \in Threads |-> IF t = MainThread THEN BootCall ELSE NoCall]
    /\ UNCHANGED <<purevars, events, appended, succeeded, fsCalls,
                   netCalls, ncalls>>

Step(t, ops, paths, contents, urls, messages) ==
    \/ CallFs(t, ops, paths, contents)
    \/ FsProviderOk(t)
    \/ FsProviderErr(t)
    \/ CallFetch(t, urls)
    \/ NetProvider(t)
    \/ CallLogEvent(t, messages)
    \/ LogLock(t)
    \/ LogUpdate(t)
    \/ LogWrite(t)
    \/ LogFlush(t)
    \/ LogUnlockReturn(t)

\* the reference broker: one thread makes the calls, one after another,
\* over one or more sessions
Next ==
    \/ Step(MainThread, FsOps, CallPaths, Contents, CallUrls, LogMessages)
    \/ NewSession

Spec == Init /\ [][Next]_vars

\* several calls in flight on one shared context, within one session
ConcOps == {"write_text"}
ConcPaths == {<<"a">>}
ConcContents == {<<EAcute>>}
ConcUrls == {UrlData}
ConcMessages == {<<"m">>}

NextConc ==
    \E t \in Threads :
        Step(t, ConcOps, ConcPaths, ConcContents, ConcUrls, ConcMessages)

SpecConc == Init /\ [][NextConc]_vars

(***************************************************************************)
(* The import bindings of the component host (wasmtime_host): each one     *)
(* calls the provider of the context and turns its Err into a trap.        *)
(***************************************************************************)
BindFsOps == {"fs.list_dir", "fs.read_text", "fs.write_text"}
BindNetOp == "net.get_text"

\* the operation of crates/core an import corresponds to
MediatedOf(op) ==
    IF op = "fs.list_dir" THEN "list_dir"
    ELSE IF op = "fs.read_text" THEN "read_text"
    ELSE IF op = "fs.write_text" THEN "write_text"
    ELSE IF op = BindNetOp THEN "fetch_json"
    ELSE op

\* map_err(|e| anyhow::anyhow!(e)): the failure of an import call
ErrTrap(detail) == [kind |-> "Trap", val |-> detail]

\* the component calls fs.list_dir, fs.read_text or fs.write_text
BindFs(t, ops, paths, contents) ==
    /\ CanStart(t)
    /\ \E o \in ops, p \in paths :
       \E c \in (IF o = "fs.write_text" THEN contents ELSE {<<>>}) :
         cur' = [cur EXCEPT ![t] = NewCall(o, p, c)]
    /\ pc' = [pc EXCEPT ![t] = "bfs"]
    /\ ncalls' = ncalls + 1
    /\ UNCHANGED <<purevars, logvars, fsCalls, netCalls, sessions>>

\* self.core.ctx.fs.<op>(&path) on StdFsHost: the path is refused
BindFsInvalid(t) ==
    /\ pc[t] = "bfs"
    /\ ~broker_sanitize_rel_path(cur[t].path).some
    /\ cur' = [cur EXCEPT ![t] =
                  [cur[t] EXCEPT !.err = InvalidPathText,
                                 !.fsSeq = fsCalls + 1,
                                 !.result = ErrTrap(InvalidPathText)]]
    /\ pc' = [pc EXCEPT ![t] = "done"]
    /\ fsCalls' = fsCalls + 1
    /\ UNCHANGED <<purevars, logvars, netCalls, ncalls, sessions>>

\* StdFsHost does the I/O and the import returns what it returned
BindFsOk(t) ==
    /\ pc[t] = "bfs"
    /\ broker_sanitize_rel_path(cur[t].path).some
    /\ \E g \in ProviderAnswers(MediatedOf(cur[t].op)) :
         cur' = [cur EXCEPT ![t] =
                    [cur[t] EXCEPT !.got = g,
                                   !.touch = broker_sanitize_rel_path(cur[t].path),
                                   !.fsSeq = fsCalls + 1,
                                   !.result = Ok(g)]]
    /\ pc' = [pc EXCEPT ![t] = "done"]
    /\ fsCalls' = fsCalls + 1
    /\ UNCHANGED <<purevars, logvars, netCalls, ncalls, sessions>>

\* the I/O of StdFsHost fails and the import traps
BindFsErr(t) ==
    /\ pc[t] = "bfs"
    /\ broker_sanitize_rel_path(cur[t].path).some
    /\ \E e \in ProviderErrors :
         cur' = [cur EXCEPT ![t] =
                    [cur[t] EXCEPT !.err = e,
                                   !.touch = broker_sanitize_rel_path(cur[t].path),
                                   !.fsSeq = fsCalls + 1,
                                   !.result = ErrTrap(e)]]
    /\ pc' = [pc EXCEPT ![t] = "done"]
    /\ fsCalls' = fsCalls + 1
    /\ UNCHANGED <<purevars, logvars, netCalls, ncalls, sessions>>

\* the component calls net.get_text
BindNet(t, urls) ==
    /\ CanStart(t)
    /\ \E u \in urls :
         cur' = [cur EXCEPT ![t] = NewCall(BindNetOp, u, <<>>)]
    /\ pc' = [pc EXCEPT ![t] = "bnet"]
    /\ ncalls' = ncalls + 1
    /\ UNCHANGED <<purevars, logvars, fsCalls, netCalls, sessions>>

\* self.core.ctx.net.get_text(&url) on StubNetHost
BindNetProvider(t) ==
    /\ pc[t] = "bnet"
    /\ LET r == StubGetTextResult(cur[t].path) IN
       cur' = [cur EXCEPT ![t] =
                  [cur[t] EXCEPT !.got = IF r.ok THEN r.val ELSE <<>>,
                                 !.err = IF r.ok THEN <<>> ELSE r.val,
                                 !.fetched = StubFetches(cur[t].path),
                                 !.result = IF r.ok THEN Ok(r.val) ELSE ErrTrap(r.val)]]
    /\ pc' = [pc EXCEPT ![t] = "done"]
    /\ netCalls' = netCalls + 1
    /\ UNCHANGED <<purevars, logvars, fsCalls, ncalls, sessions>>

\* the broker serving both its own calls through crates/core and the
\* imports of a component
NextComponent ==
    \/ Step(MainThread, FsOps, CallPaths, Contents, CallUrls, ConcMessages)
    \/ BindFs(MainThread, BindFsOps, CallPaths, Contents)
    \/ BindFsInvalid(MainThread)
    \/ BindFsOk(MainThread)
    \/ BindFsErr(MainThread)
    \/ BindNet(MainThread, CallUrls)
    \/ BindNetProvider(MainThread)

SpecComponent == Init /\ [][NextComponent]_vars

(***************************************************************************)
(* A log whose file can fail.  The lines are far shorter than the buffer   *)
(* of the BufWriter, so write_all only buffers and the I/O happens in      *)
(* flush.  A flush that fails has written some part of the buffer, short   *)
(* of all of it; BufWriter keeps the rest.                                 *)
(***************************************************************************)
\* how much of the buffer b a failing flush has written: nothing, one byte,
\* all but the last byte
FlushCuts(b) == {k \in {0, 1, Len(b) - 1} : 0 <= k /\ k < Len(b)}

\* AuditLog::append: flush fails and append returns Err, which
\* StdLogHost::event drops (let _ = ...)
LogFlushFail(t) ==
    /\ pc[t] = "written"
    /\ \E k \in FlushCuts(buf) :
         /\ file' = file \o SubSeq(buf, 1, k)
         /\ buf' = SubSeq(buf, k + 1, Len(buf))
    /\ cur' = [cur EXCEPT ![t].appendFailed = TRUE]
    /\ pc' = [pc EXCEPT ![t] = "flushed"]
    /\ UNCHANGED <<purevars, state, lock, events, appended, succeeded, fsCalls,
                   netCalls, ncalls, sessions>>

NextFault ==
    \/ CallFs(MainThread, ConcOps, ConcPaths, ConcContents)
    \/ FsProviderOk(MainThread)
    \/ CallLogEvent(MainThread, ConcMessages)
    \/ LogLock(MainThread)
    \/ LogUpdate(MainThread)
    \/ LogWrite(MainThread)
    \/ LogFlush(MainThread)
    \/ LogFlushFail(MainThread)
    \/ LogUnlockReturn(MainThread)

SpecFault == Init /\ [][NextFault]_vars

\* C11: a call whose audit append failed does not return success: an error
\* value reaches its caller.
C11_AppendFailureReachesCaller ==
    \A t \in Threads :
        (cur[t].appendFailed /\ pc[t] = "done") => cur[t].result.kind # "Ok"

\* C19: once an append has failed, the chain state is the one the log had
\* when the call took it, until the next append.
C19_FailedAppendKeepsState ==
    \A t \in Threads :
        (cur[t].appendFailed /\ pc[t] \in {"flushed", "done"}) => state = cur[t].acc0

(***************************************************************************)
(* Claims about the mediated operations (one caller, Spec).                *)
(***************************************************************************)
HasParentSegment(p) == \E i \in 1..Len(SplitSlash(p)) : SplitSlash(p)[i] = DotDot

UnsafePath(p) == is_absolute(p) \/ HasParentSegment(p)

\* C1: a list_dir, read_text or write_text call whose path is absolute or
\* has a ".." segment has returned InvalidPath, and since it started no
\* provider call was made and no event was logged, whatever came before.
C1_UnsafePathRejectedBeforeProvider ==
    \A t \in Threads :
        (cur[t].op \in FsOps /\ UnsafePath(cur[t].path)) =>
            /\ pc[t] = "done"
            /\ cur[t].result = ErrInvalidPath
            /\ fsCalls = cur[t].fs0
            /\ netCalls = cur[t].net0
            /\ Len(events) = cur[t].ev0
            /\ Len(appended) = cur[t].ev0

\* a traversal attempt was refused after earlier calls had reached the
\* provider and the log
C1_Witness ==
    /\ cur[MainThread].op = "read_text"
    /\ cur[MainThread].path = <<".", ".", "/", "a">>
    /\ cur[MainThread].result = ErrInvalidPath
    /\ fsCalls > 0
    /\ Len(events) > 1

InAppend == {"locked", "updated", "written", "flushed"}

\* the event the claim expects of a mediated call
ExpectedEvent(c) ==
    LET rel == sanitize_rel_path(c.path).val IN
    IF c.op = "list_dir" THEN MsgListDir \o rel
    ELSE IF c.op = "read_text"
         THEN MsgReadText \o rel \o MsgBytes \o Dec(ByteLen(c.got))
    ELSE IF c.op = "write_text"
         THEN MsgWriteText \o rel \o MsgBytes \o Dec(ByteLen(c.content))
    ELSE MsgGetText \o c.path \o MsgBytes \o Dec(ByteLen(c.got))

IsMediated(e) == e.id > 0 /\ e.op \in MediatedOps

Ids(es) == [i \in 1..Len(es) |-> es[i].id]

IsMediatedId(e) == \E i \in 1..Len(events) : events[i].id = e.id /\ IsMediated(events[i])

Terminators == {i \in 1..Len(file) : file[i] = NL}

\* the k-th terminator; 0 stands for the start of the file
Terminator(k) ==
    IF k = 0 THEN 0
    ELSE CHOOSE i \in Terminators : Cardinality({j \in Terminators : j < i}) = k - 1

\* the lines of the file, without their terminators
FileLines ==
    [k \in 1..Cardinality(Terminators) |->
        SubSeq(file, Terminator(k - 1) + 1, Terminator(k) - 1)]

FirstBar(line) ==
    IF \E i \in 1..Len(line) : line[i] = "|"
    THEN CHOOSE i \in 1..Len(line) : line[i] = "|" /\ \A j \in 1..(i - 1) : line[j] # "|"
    ELSE 0

IsDigit(ch) == \E d \in 0..9 : Digit(d) = ch

DigitValue(ch) == CHOOSE d \in 0..9 : Digit(d) = ch

RECURSIVE ParseDec(_)
ParseDec(ds) ==
    IF ds = <<>> THEN 0
    ELSE 10 * ParseDec(SubSeq(ds, 1, Len(ds) - 1)) + DigitValue(ds[Len(ds)])

\* a line reads "<acc>|<message>" with <acc> a decimal number
WellFormed(line) ==
    /\ FirstBar(line) > 1
    /\ \A i \in 1..(FirstBar(line) - 1) : IsDigit(line[i])

StoredAcc(line) == ParseDec(SubSeq(line, 1, FirstBar(line) - 1))

StoredMsg(line) == SubSeq(line, FirstBar(line) + 1, Len(line))

NoLineBreakLogged == \A i \in 1..Len(appended) : \A j \in 1..Len(appended[i].msg) : appended[i].msg[j] # NL

\* C8: read as a whole, re-opened or not, every line of the file is a
\* well-formed entry whose accumulator is the fold of the previous line's
\* accumulator (the seed for the first line) and its own message.  Stated
\* for files whose messages hold no line break.
C8_FileChainedAcrossSessions ==
    NoLineBreakLogged =>
        \A k \in 1..Len(FileLines) :
            /\ WellFormed(FileLines[k])
            /\ StoredAcc(FileLines[k]) =
                   ChainUpdate(IF k = 1 THEN ChainHashNew ELSE StoredAcc(FileLines[k - 1]),
                               StoredMsg(FileLines[k]))

\* C10: the file holds as many lines as appends have completed, and the
\* k-th line is the accumulator, "|" and the message of the k-th append.
C10_OneLinePerAppend ==
    /\ Len(FileLines) = Len(appended)
    /\ \A k \in 1..Len(appended) :
           /\ k <= Len(FileLines)
           /\ WellFormed(FileLines[k])
           /\ StoredMsg(FileLines[k]) = appended[k].msg

(***************************************************************************)
(* Claims about concurrent callers of one log (SpecConc).                  *)
(***************************************************************************)
RECURSIVE ChainedFile(_, _)
\* the file that appending the messages one after the other produces
ChainedFile(prev, entries) ==
    IF entries = <<>> THEN <<>>
    ELSE LET acc == ChainUpdate(prev, entries[1].msg)
         IN Line(acc, entries[1].msg) \o ChainedFile(acc, Tail(entries))

\* C9: at most one thread is between taking the lock and releasing it, so
\* fold, write and flush of one append never overlap another's; the file
\* is the lines of the completed appends, whole, in their order of
\* completion, each accumulator folded from the one of the line before.
C9_AppendsSerialized ==
    /\ \A t, u \in Threads : (pc[t] \in InAppend /\ pc[u] \in InAppend) => t = u
    /\ \A t \in Threads : pc[t] \in InAppend <=> lock = t
    /\ file = ChainedFile(ChainHashNew, appended)

\* two callers raced: the second thread's entry is in the file while the
\* first waits for the lock with its own event
C9_Witness ==
    /\ lock = 2
    /\ pc[2] = "flushed"
    /\ pc[1] = "log"
    /\ cur[1].op = "write_text"
    /\ Len(appended) = 2
    /\ appended[2].id = cur[2].id

(***************************************************************************)
(* Claims about the network gate, provider failures and the imports of a   *)
(* component.                                                              *)
(***************************************************************************)
NetOps == {"fetch_json", BindNetOp}

\* C12: a request for a URL the policy does not allow, through fetch_json
\* or through the net.get_text import, ends in an error and never in a
\* body; the network host is asked once and stops at its policy test.
C12_DeniedUrlNeverFetched ==
    \A t \in Threads :
        (cur[t].op \in NetOps /\ ~is_url_allowed(BrokerPolicy, cur[t].path)) =>
            /\ ~cur[t].fetched
            /\ cur[t].got = <<>>
            /\ cur[t].result.kind \in {"pending", "Net", "Trap"}
            /\ pc[t] \in {"net", "bnet", "done"}
            /\ pc[t] = "done" =>
                   /\ cur[t].result.kind # "pending"
                   /\ netCalls = cur[t].net0 + 1

\* the import was called with a host that has an allowed domain as a prefix
\* and trapped with the policy's refusal
C12_Witness ==
    /\ cur[MainThread].op = BindNetOp
    /\ cur[MainThread].path = UrlEvilSuffix
    /\ cur[MainThread].result = ErrTrap(BlockedByPolicy)
    /\ netCalls = 2

\* C13: a fetch to a URL the policy does not allow returns an error of a
\* kind of its own, PolicyDenied, which is not the kind of a network
\* failure.
C13_PolicyDeniedIsItsOwnVariant ==
    \A t \in Threads :
        (cur[t].op = "fetch_json" /\ pc[t] = "done"
            /\ ~is_url_allowed(BrokerPolicy, cur[t].path)) =>
            /\ cur[t].result.kind = "PolicyDenied"
            /\ cur[t].result.kind # ErrNet(<<>>).kind

\* C14: an import call gives what the mediated operation gives for the same
\* argument and the same answer of the provider: a refused path fails, a
\* provider failure fails, and a success returns the mediated result (the
\* listing sorted and without repeats) after exactly one audit event.
C14_ImportEqualsMediatedCall ==
    LET c == cur[MainThread]
        m == [c EXCEPT !.op = MediatedOf(c.op),
                       !.rel = sanitize_rel_path(c.path).val]
    IN (c.op \in BindFsOps \cup {BindNetOp} /\ pc[MainThread] = "done") =>
          IF c.op \in BindFsOps /\ ~sanitize_rel_path(c.path).some
          THEN c.result.kind = "Trap" /\ Len(events) = c.ev0
          ELSE IF c.err # <<>>
          THEN c.result = ErrTrap(c.err) /\ Len(events) = c.ev0
          ELSE /\ c.result = Ok(ResultValue(m))
               /\ Len(events) = c.ev0 + 1
               /\ events[Len(events)].msg = EventMessage(m)

\* C17: when the provider fails, it was called once, the call returned the
\* filesystem or network failure with the provider's text as it was, and no
\* event was logged; the log holds events of the mediated calls that
\* succeeded (or are about to return success) only.
C17_ProviderFailureIsTerminal ==
    LET c == cur[MainThread] IN
    /\ (c.op \in MediatedOps /\ c.err # <<>>) =>
           /\ pc[MainThread] = "done"
           /\ (fsCalls - c.fs0) + (netCalls - c.net0) = 1
           /\ c.result = [kind |-> IF c.op \in FsOps THEN "Fs" ELSE "Net", val |-> c.err]
           /\ Len(events) = c.ev0
           /\ Len(appended) = c.ev0
    /\ \A i \in 1..Len(events) :
           IsMediated(events[i]) =>
               \/ \E k \in 1..Len(succeeded) : succeeded[k] = events[i].id
               \/ (events[i].id = c.id /\ pc[MainThread] \in InAppend)

\* a read failed in the provider after an earlier call had succeeded
C17_Witness ==
    /\ cur[MainThread].op = "read_text"
    /\ cur[MainThread].result = ErrFs(PermissionDenied)
    /\ Len(succeeded) = 1
    /\ fsCalls = 2

\* C18: on both routes StdFsHost accesses the file system only at a
\* relative path with no ".." segment below the workspace root, and for an
\* absolute path or one with a ".." segment it accesses nothing and the
\* call fails, the import with the text "invalid path".
C18_ProviderStaysInWorkspace ==
    \A t \in Threads :
        cur[t].op \in FsOps \cup BindFsOps =>
            /\ cur[t].touch.some =>
                   /\ ~is_absolute(cur[t].touch.val)
                   /\ ~HasParentSegment(cur[t].touch.val)
                   /\ ~UnsafePath(cur[t].path)
            /\ (UnsafePath(cur[t].path) /\ pc[t] = "done") =>
                   /\ ~cur[t].touch.some
                   /\ cur[t].got = <<>>
                   /\ cur[t].op \in FsOps => cur[t].result = ErrInvalidPath
                   /\ cur[t].op \in BindFsOps => cur[t].result = ErrTrap(InvalidPathText)

\* the component asked to write above the workspace and was refused
C18_Witness ==
    /\ cur[MainThread].op = "fs.write_text"
    /\ cur[MainThread].path = <<".", ".", "/", "a">>
    /\ cur[MainThread].content = <<EAcute>>
    /\ cur[MainThread].result = ErrTrap(InvalidPathText)
    /\ cur[MainThread].touch = None
    /\ fsCalls = 2

(***************************************************************************)
(* Claims about the audit file over sessions and about concurrent calls.   *)
(***************************************************************************)
IsPrefix(a, b) == Len(a) <= Len(b) /\ SubSeq(b, 1, Len(a)) = a

EntryOf(t) == CHOOSE i \in 1..Len(appended) : appended[i].id = cur[t].id

HasEntry(t) ==
    /\ cur[t].op \in FsOps
    /\ \E i \in 1..Len(appended) : appended[i].id = cur[t].id

\* C20: of two mediated calls whose entries are in the log, the one whose
\* provider call came first has the earlier entry.
C20_AuditOrderIsEffectOrder ==
    \A t, u \in Threads :
        (HasEntry(t) /\ HasEntry(u)) =>
            (cur[t].fsSeq < cur[u].fsSeq <=> EntryOf(t) < EntryOf(u))

(***************************************************************************)
(* rand.fill of the component host: two runs make the same call.           *)
(* StdRng::from_entropy seeds the generator from the operating system, so  *)
(* the bytes of a call are any bytes.                                      *)
(***************************************************************************)
ByteSamples == {0, 1, 255}

\* StdRng::from_entropy() and fill_bytes on a buffer of len bytes
FromEntropy(len) == [1..len -> ByteSamples]

Runs == {1, 2}

InitRand ==
    /\ fn = "rand.fill"
    /\ arg \in 0..MaxFillLen
    /\ ret = <<>>
    /\ NoSystem

\* the next run calls rand.fill(arg)
RandFill ==
    /\ fn = "rand.fill"
    /\ Len(ret) < Cardinality(Runs)
    /\ \E bytes \in FromEntropy(arg) : ret' = Append(ret, bytes)
    /\ UNCHANGED <<fn, arg, sysvars>>

NextRand == RandFill

SpecRand == InitRand /\ [][NextRand]_vars

\* C16: two runs that call rand.fill(len) get the same len bytes.
C16_RandFillReproducible ==
    (fn = "rand.fill" /\ Len(ret) = Cardinality(Runs)) =>
        /\ Len(ret[1]) = arg
        /\ Len(ret[2]) = arg
        /\ ret[1] = ret[2]

====
